---------------------------- MODULE Spec2Model ----------------------------
(***************************************************************************)
(* A model of bitcoin-decode-address: the scriptPubKey decoder of          *)
(* extract.ts and of its compiled, extended form dist/extract.js.          *)
(*                                                                         *)
(* Bytes are integers 0..255, buffers are sequences of bytes, and text is  *)
(* a sequence of one-character strings.  A JavaScript number n is the pair *)
(* <<q, r>> with n = q * 2^31 + r and 0 <= r < 2^31, so that numbers       *)
(* beyond the 32-bit range can be written; the results of the 32-bit       *)
(* operators (<<, >>, &, |) are plain integers in -2^31 .. 2^31 - 1.       *)
(***************************************************************************)
EXTENDS Integers, Sequences, FiniteSets, TLC

VARIABLES
    args,       \* process.argv.slice(2): a sequence of hex texts
    script,     \* the Buffer handed to decodeScriptPubKey
    pc,         \* "start", then which program or function has run
    result,     \* what decodeScriptPubKey returned or threw
    stdout,     \* lines written by console.log
    stderr,     \* lines written by console.error
    exitCode,   \* process exit code
    bdata,      \* convertBits: the input numbers
    fromBits,   \* convertBits: input width
    toBits,     \* convertBits: output width
    pad,        \* convertBits: the pad flag
    packed,     \* outcome of convertBits(bdata, fromBits, toBits, pad)
    unpacked,   \* outcome of convertBits(packed words, toBits, fromBits, false)
    bstage      \* "input", "packed", "unpacked"

decodeVars == <<args, script, pc, result, stdout, stderr, exitCode>>
bitsVars == <<bdata, fromBits, toBits, pad, packed, unpacked, bstage>>
vars == <<args, script, pc, result, stdout, stderr, exitCode,
          bdata, fromBits, toBits, pad, packed, unpacked, bstage>>

(***************************************************************************)
(* Bounds of the model.                                                    *)
(***************************************************************************)
\* longest free prefix of a convertBits input
MaxPrefix == 2
\* scripts of every length 35 .. MaxScriptLen are generated
MaxScriptLen == 36

(***************************************************************************)
(* JavaScript numbers and the 32-bit integer operators.                    *)
(***************************************************************************)
Num(n) == <<0, n>>

MinInt32 == (-(2^30)) - 2^30

\* ToInt32: the low 32 bits of a number, read as a signed integer
ToInt32(v) == IF v[1] % 2 = 0 THEN v[2] ELSE (v[2] - 2^30) - 2^30

\* a << k on 32-bit integers; the shift count is taken modulo 32
Shl32(a, k) ==
    LET s == k % 32
        keep == a % (2^(31 - s))
        top == (a \div (2^(31 - s))) % 2
    IN  IF s = 0 THEN a
        ELSE IF s = 31 THEN (IF a % 2 = 1 THEN MinInt32 ELSE 0)
        ELSE IF top = 1 THEN ((keep * (2^s)) - 2^30) - 2^30
        ELSE keep * (2^s)

\* a >> k, the sign-propagating shift
Sar32(a, k) ==
    LET s == k % 32
    IN  IF s = 31 THEN (IF a < 0 THEN -1 ELSE 0) ELSE a \div (2^s)

\* bit i of a byte, and the bitwise operators on bytes
BitAt(x, i) == (x \div (2^i)) % 2

AndByte(x, y) ==
    IF x = 0 \/ y = 0 THEN 0
    ELSE IF x = 255 THEN y
    ELSE IF y = 255 THEN x
    ELSE (BitAt(x, 0) * BitAt(y, 0)) + (2 * BitAt(x, 1) * BitAt(y, 1))
         + (4 * BitAt(x, 2) * BitAt(y, 2)) + (8 * BitAt(x, 3) * BitAt(y, 3))
         + (16 * BitAt(x, 4) * BitAt(y, 4)) + (32 * BitAt(x, 5) * BitAt(y, 5))
         + (64 * BitAt(x, 6) * BitAt(y, 6)) + (128 * BitAt(x, 7) * BitAt(y, 7))

OrByte(x, y) == (x + y) - AndByte(x, y)
XorByte(x, y) == (x + y) - (2 * AndByte(x, y))

\* byte j (0 the lowest) of a 32-bit integer in two's complement, and back
ByteOf(a, j) == (a \div (256^j)) % 256

FromBytes(b0, b1, b2, b3) ==
    b0 + (256 * b1) + (65536 * b2)
    + (16777216 * (IF b3 >= 128 THEN b3 - 256 ELSE b3))

\* a & b, a | b, a ^ b on 32-bit integers
And32(a, b) ==
    FromBytes(AndByte(ByteOf(a, 0), ByteOf(b, 0)), AndByte(ByteOf(a, 1), ByteOf(b, 1)),
              AndByte(ByteOf(a, 2), ByteOf(b, 2)), AndByte(ByteOf(a, 3), ByteOf(b, 3)))

Or32(a, b) ==
    FromBytes(OrByte(ByteOf(a, 0), ByteOf(b, 0)), OrByte(ByteOf(a, 1), ByteOf(b, 1)),
              OrByte(ByteOf(a, 2), ByteOf(b, 2)), OrByte(ByteOf(a, 3), ByteOf(b, 3)))

Xor32(a, b) ==
    FromBytes(XorByte(ByteOf(a, 0), ByteOf(b, 0)), XorByte(ByteOf(a, 1), ByteOf(b, 1)),
              XorByte(ByteOf(a, 2), ByteOf(b, 2)), XorByte(ByteOf(a, 3), ByteOf(b, 3)))

(***************************************************************************)
(* convertBits                                                             *)
(***************************************************************************)
\* const maxv = (1 << toBits) - 1
MaxV(tb) == Shl32(1, tb) - 1

\* the guard of the throw: value < 0 || value >> fromBits !== 0
InvalidValue(value, fb) == value[1] < 0 \/ Sar32(ToInt32(value), fb) # 0

\* acc = (acc << fromBits) | value
Accumulate(acc, value, fb) == Or32(Shl32(acc, fb), ToInt32(value))

\* (acc >> bits) & maxv
EmitWordUnmasked(acc, bits, mv) == Sar32(acc, bits)
EmitWord(acc, bits, mv) == And32(Sar32(acc, bits), mv)

\* (acc << (toBits - bits)) & maxv
PadWordDropped(acc, bits, tb, mv) == And32(Sar32(acc, tb - bits), mv)
PadWord(acc, bits, tb, mv) == And32(Shl32(acc, tb - bits), mv)

\* while (bits >= toBits) { bits -= toBits; result.push(...) }
RECURSIVE Drain(_, _, _, _, _)
Drain(acc, bits, words, tb, mv) ==
    IF bits >= tb
    THEN Drain(acc, bits - tb, Append(words, EmitWord(acc, bits - tb, mv)), tb, mv)
    ELSE [bits |-> bits, words |-> words]

\* one turn of  for (const value of data) { ... };  a throw ends the loop
LoopStep(st, value, fb, tb) ==
    IF st.thrown THEN st
    ELSE IF InvalidValue(value, fb)
    THEN [thrown |-> TRUE, acc |-> st.acc, bits |-> st.bits, words |-> st.words]
    ELSE LET acc2 == Accumulate(st.acc, value, fb)
             d == Drain(acc2, st.bits + fb, st.words, tb, MaxV(tb))
         IN  [thrown |-> FALSE, acc |-> acc2, bits |-> d.bits, words |-> d.words]

\* the loop over data[lo..hi], in order from the state st; the range is
\* halved, and the first half finished before the second starts, so that
\* the evaluation stays shallow
RECURSIVE ConvertLoop(_, _, _, _, _, _)
ConvertLoop(data, lo, hi, st, fb, tb) ==
    IF lo > hi THEN st
    ELSE IF lo = hi THEN LoopStep(st, data[lo], fb, tb)
    ELSE LET mid == (lo + hi) \div 2
             left == ConvertLoop(data, lo, mid, st, fb, tb)
         IN  IF left.thrown THEN left
             ELSE ConvertLoop(data, mid + 1, hi, left, fb, tb)

Ok(ws) == [kind |-> "ok", message |-> "", words |-> ws]
Thrown(msg) == [kind |-> "error", message |-> msg, words |-> << >>]
NotRun == [kind |-> "none", message |-> "", words |-> << >>]

convertBits(data, fb, tb, p) ==
    LET l == ConvertLoop(data, 1, Len(data),
                         [thrown |-> FALSE, acc |-> 0, bits |-> 0, words |-> << >>],
                         fb, tb)
        mv == MaxV(tb)
    IN  IF l.thrown THEN Thrown("Invalid value")
        ELSE IF p
        THEN IF l.bits > 0
             THEN Ok(Append(l.words, PadWord(l.acc, l.bits, tb, mv)))
             ELSE Ok(l.words)
        ELSE IF l.bits >= fb \/ PadWord(l.acc, l.bits, tb, mv) # 0
        THEN Thrown("Invalid padding")
        ELSE Ok(l.words)

(***************************************************************************)
(* The inputs convertBits is applied to.                                   *)
(***************************************************************************)
\* the two widths the program converts between (8-bit bytes, 5-bit words)
Widths == {5, 8}

\* numbers in and out of range: 0, 1, 31, 165, 255, 256, -1, 2^32, 2^32 + 7
JsValues == { Num(0), Num(1), Num(31), Num(165), Num(255), Num(256),
              <<-1, 2147483647>>, <<2, 0>>, <<2, 7>> }

Prefixes == UNION { [1..n -> JsValues] : n \in 0..MaxPrefix }

\* <<length, fill>>: fill 0 repeats the largest fb-bit value, fill 1 varies
TailShapes == { <<0, 0>>, <<6, 0>>, <<32, 1>> }

TailOf(t, fb) ==
    [i \in 1..t[1] |-> Num(IF t[2] = 0 THEN 2^fb - 1 ELSE ((i * 41) + 7) % (2^fb))]

InRange(v, fb) == v[1] = 0 /\ v[2] < 2^fb
AllInRange(data, fb) == \A i \in 1..Len(data) : InRange(data[i], fb)
Values(data) == [i \in 1..Len(data) |-> data[i][2]]
Nums(ws) == [i \in 1..Len(ws) |-> Num(ws[i])]

(***************************************************************************)
(* The bit stream of an input, without an accumulator: bit p (from 0) of   *)
(* the concatenated fb-bit values, zero past the end; and its k-th         *)
(* tb-bit slice (from 0).                                                  *)
(***************************************************************************)
StreamBit(vals, fb, p) ==
    IF p >= Len(vals) * fb THEN 0
    ELSE (vals[(p \div fb) + 1] \div (2^((fb - 1) - (p % fb)))) % 2

RECURSIVE SliceFrom(_, _, _, _, _)
SliceFrom(vals, fb, p, n, sofar) ==
    IF n = 0 THEN sofar
    ELSE SliceFrom(vals, fb, p + 1, n - 1, (2 * sofar) + StreamBit(vals, fb, p))

StreamWord(vals, fb, tb, k) == SliceFrom(vals, fb, k * tb, tb, 0)

CeilDiv(a, b) == (a + b - 1) \div b

(***************************************************************************)
(* convertBits applied to bounded inputs, and the result unpacked again.   *)
(***************************************************************************)
IdleDecode ==
    /\ args = << >>
    /\ script = << >>
    /\ pc = "idle"
    /\ result = [kind |-> "none", message |-> "", address |-> << >>]
    /\ stdout = << >>
    /\ stderr = << >>
    /\ exitCode = 0

InitBits ==
    /\ IdleDecode
    /\ fromBits \in Widths
    /\ toBits \in Widths
    /\ pad \in BOOLEAN
    /\ \E p \in Prefixes, t \in TailShapes : bdata = p \o TailOf(t, fromBits)
    /\ packed = NotRun
    /\ unpacked = NotRun
    /\ bstage = "input"

Pack ==
    /\ bstage = "input"
    /\ packed' = convertBits(bdata, fromBits, toBits, pad)
    /\ bstage' = "packed"
    /\ UNCHANGED <<bdata, fromBits, toBits, pad, unpacked>>
    /\ UNCHANGED decodeVars

Unpack ==
    /\ bstage = "packed"
    /\ packed.kind = "ok"
    /\ unpacked' = convertBits(Nums(packed.words), toBits, fromBits, FALSE)
    /\ bstage' = "unpacked"
    /\ UNCHANGED <<bdata, fromBits, toBits, pad, packed>>
    /\ UNCHANGED decodeVars

NextBits == Pack \/ Unpack

SpecBits == InitBits /\ [][NextBits]_vars

(***************************************************************************)
(* Text.  A string of the program is a sequence of one-character strings.  *)
(***************************************************************************)
Min(a, b) == IF a <= b THEN a ELSE b
Max(a, b) == IF a >= b THEN a ELSE b

\* the position (from 0) of character c in the table t, or -1
IndexIn(t, c) ==
    IF \E i \in 1..Len(t) : t[i] = c
    THEN (CHOOSE i \in 1..Len(t) : t[i] = c) - 1
    ELSE -1

\* buf.subarray(a, b): both ends are clamped to the buffer
SubArray(buf, a, b) ==
    LET lo == Min(Max(a, 0), Len(buf))
        hi == Min(Max(b, 0), Len(buf))
    IN  IF hi <= lo THEN << >> ELSE SubSeq(buf, lo + 1, hi)

HexDigits == << "0", "1", "2", "3", "4", "5", "6", "7", "8", "9", "a", "b", "c", "d", "e", "f" >>

\* buf.toString("hex")
BytesToHex(buf) ==
    [i \in 1..(2 * Len(buf)) |->
        IF i % 2 = 1 THEN HexDigits[(buf[(i + 1) \div 2] \div 16) + 1]
        ELSE HexDigits[(buf[i \div 2] % 16) + 1]]

\* the value of a hex digit of either case, or -1
HexValue(c) ==
    CASE
         c = "0" -> 0 []
         c = "1" -> 1 []
         c = "2" -> 2 []
         c = "3" -> 3 []
         c = "4" -> 4 []
         c = "5" -> 5 []
         c = "6" -> 6 []
         c = "7" -> 7 []
         c = "8" -> 8 []
         c = "9" -> 9 []
         c = "a" -> 10 []
         c = "b" -> 11 []
         c = "c" -> 12 []
         c = "d" -> 13 []
         c = "e" -> 14 []
         c = "f" -> 15 []
         c = "A" -> 10 []
         c = "B" -> 11 []
         c = "C" -> 12 []
         c = "D" -> 13 []
         c = "E" -> 14 []
         c = "F" -> 15 []
         OTHER -> -1

\* Buffer.from(text, "hex"): whole pairs of hex digits, up to the first
\* pair that is not hexadecimal
BufferFromHex(text) ==
    LET vals == [i \in 1..Len(text) |-> HexValue(text[i])]
        pairs == Len(text) \div 2
        bad == { k \in 1..pairs : vals[(2 * k) - 1] < 0 \/ vals[2 * k] < 0 }
        n == IF bad = {} THEN pairs
             ELSE (CHOOSE k \in bad : \A j \in bad : k <= j) - 1
    IN  [k \in 1..n |-> (16 * vals[(2 * k) - 1]) + vals[2 * k]]

(***************************************************************************)
(* The digest functions are library code (@noble/hashes sha256, node's     *)
(* createHash('ripemd160')).  The model keeps their shape, any bytes to 32 *)
(* and to 20 bytes, with two different deterministic mixing functions in   *)
(* place of the real compression functions.                                *)
(***************************************************************************)
ByteAt(m, k) == IF Len(m) = 0 THEN 0 ELSE m[((k - 1) % Len(m)) + 1]

sha256(m) ==
    [i \in 1..32 |->
        ((ByteAt(m, i) * 7) + (ByteAt(m, i + 16) * 13) + ByteAt(m, 3 * i)
         + (Len(m) * 31) + (i * 17) + 99) % 256]

ripemd160(m) ==
    [i \in 1..20 |->
        ((ByteAt(m, i) * 11) + (ByteAt(m, i + 20) * 5) + ByteAt(m, 2 * i)
         + (Len(m) * 3) + (i * 29) + 7) % 256]

(***************************************************************************)
(* base58.encode of @scure/base: the bytes as one number written in base   *)
(* 58, one leading "1" for each leading zero byte.                         *)
(***************************************************************************)
Base58Alphabet ==
    << "1", "2", "3", "4", "5", "6", "7", "8", "9", "A", "B", "C", "D", "E", "F", "G",
       "H", "J", "K", "L", "M", "N", "P", "Q", "R", "S", "T", "U", "V", "W", "X", "Y",
       "Z", "a", "b", "c", "d", "e", "f", "g", "h", "i", "j", "k", "m", "n", "o", "p",
       "q", "r", "s", "t", "u", "v", "w", "x", "y", "z" >>

IsZeros(digits) == \A i \in 1..Len(digits) : digits[i] = 0

\* one pass of the radix conversion: the digits (base 256) divided by 58
RECURSIVE DivideBy58(_, _, _, _)
DivideBy58(digits, i, carry, quotient) ==
    IF i > Len(digits) THEN [quotient |-> quotient, carry |-> carry]
    ELSE LET digitBase == (256 * carry) + digits[i]
         IN  DivideBy58(digits, i + 1, digitBase % 58, Append(quotient, digitBase \div 58))

\* the passes: each pushes its remainder, until the quotient is zero
RECURSIVE RadixLoop(_, _)
RadixLoop(digits, res) ==
    LET d == DivideBy58(digits, 1, 0, << >>)
    IN  IF IsZeros(d.quotient) THEN Append(res, d.carry)
        ELSE RadixLoop(d.quotient, Append(res, d.carry))

Reverse(q) == [i \in 1..Len(q) |-> q[(Len(q) + 1) - i]]

\* convertRadix(data, 256, 58): a zero is pushed for every leading zero
\* byte but the last byte, then the digits are reversed
LeadingZeroDigits(data) ==
    LET stop == { i \in 1..(Len(data) - 1) : data[i] # 0 }
        n == IF stop = {} THEN Max(Len(data) - 1, 0)
             ELSE (CHOOSE i \in stop : \A j \in stop : i <= j) - 1
    IN  [i \in 1..n |-> 0]

ConvertRadix58(data) ==
    IF Len(data) = 0 THEN << >>
    ELSE Reverse(RadixLoop(data, << >>) \o LeadingZeroDigits(data))

Base58Encode(data) ==
    LET ds == ConvertRadix58(data)
    IN  [i \in 1..Len(ds) |-> Base58Alphabet[ds[i] + 1]]

\* base58CheckEncode: payload, then the first 4 bytes of sha256(sha256(payload))
base58CheckEncode(payload) ==
    LET checksum == SubArray(sha256(sha256(payload)), 0, 4)
        binaryAddress == payload \o checksum
    IN  Base58Encode(binaryAddress)

(***************************************************************************)
(* bech32.encode and bech32m.encode of @scure/base: prefix, "1", the words *)
(* and a six-word checksum, all but the prefix in the Bech32 alphabet.     *)
(* The two differ in the constant folded into the checksum.                *)
(***************************************************************************)
Bech32Alphabet ==
    << "q", "p", "z", "r", "y", "9", "x", "8", "g", "f", "2", "t", "v", "d", "w", "0",
       "s", "3", "j", "n", "5", "4", "k", "h", "c", "e", "6", "m", "u", "a", "7", "l" >>

LowerLetters ==
    << "a", "b", "c", "d", "e", "f", "g", "h", "i", "j", "k", "l", "m", "n", "o", "p",
       "q", "r", "s", "t", "u", "v", "w", "x", "y", "z" >>

\* charCodeAt of a lower-case letter
CharCode(c) == 97 + IndexIn(LowerLetters, c)

\* 0x3b6a57b2, 0x26508e6d, 0x1ea119fa, 0x3d4233dd, 0x2a1462b3
PolymodGenerators == << 996825010, 642813549, 513874426, 1027748829, 705979059 >>

\* the checksum constants: 1 for Bech32, 0x2bc830a3 for Bech32m
Bech32Const == 1
Bech32mConst == 734539939

XorIf(chk, b, i) ==
    IF And32(Sar32(b, i), 1) = 1 THEN Xor32(chk, PolymodGenerators[i + 1]) ELSE chk

\* bech32Polymod(pre); 0x1ffffff is 33554431
bech32Polymod(pre) ==
    LET b == Sar32(pre, 25)
        chk == Shl32(And32(pre, 33554431), 5)
    IN  XorIf(XorIf(XorIf(XorIf(XorIf(chk, b, 0), b, 1), b, 2), b, 3), b, 4)

\* chk = bech32Polymod(chk) ^ v  for v in vals[lo..hi], in order; the range
\* is halved, and the first half finished before the second starts, so
\* that the evaluation stays shallow
RECURSIVE PolymodOver(_, _, _, _)
PolymodOver(vals, lo, hi, chk) ==
    IF lo > hi THEN chk
    ELSE IF lo = hi THEN Xor32(bech32Polymod(chk), vals[lo])
    ELSE LET mid == (lo + hi) \div 2
             left == PolymodOver(vals, lo, mid, chk)
         IN  IF left = left THEN PolymodOver(vals, mid + 1, hi, left) ELSE left

\* bechChecksum(prefix, words, encodingConst): the prefix's high bits, a
\* zero, its low bits, the words, six zeros; then the constant; then the
\* 30 bits as six words
bechChecksum(prefix, words, encodingConst) ==
    LET high == [i \in 1..Len(prefix) |-> Sar32(CharCode(prefix[i]), 5)]
        low == [i \in 1..Len(prefix) |-> And32(CharCode(prefix[i]), 31)]
        vals == high \o << 0 >> \o low \o words \o << 0, 0, 0, 0, 0, 0 >>
        chk == Xor32(PolymodOver(vals, 1, Len(vals), 1), encodingConst) % (2^30)
    IN  [i \in 1..6 |-> (chk \div (2^(5 * (6 - i)))) % 32]

BechEncode(prefix, words, encodingConst) ==
    LET all == words \o bechChecksum(prefix, words, encodingConst)
    IN  prefix \o << "1" >> \o [i \in 1..Len(all) |-> Bech32Alphabet[all[i] + 1]]

bech32Encode(hrp, data) == BechEncode(hrp, data, Bech32Const)

\* bech32mEncode of extract.ts
bech32mEncode(hrp, data) == BechEncode(hrp, data, Bech32mConst)

(***************************************************************************)
(* decodeScriptPubKey.  Byte values: 0x76 = 118, 0xa9 = 169, 0x14 = 20,    *)
(* 0x87 = 135, 0x41 = 65, 0xac = 172, 0x51 = 81, 0x20 = 32, 0x6a = 106.    *)
(* Buffer index k of the code is sequence index k + 1 here.                *)
(***************************************************************************)
\* the conditions of the branches, as written in the code
IsP2PKH(s) == Len(s) >= 25 /\ s[1] = 118 /\ s[2] = 169 /\ s[3] = 20
IsP2SH(s) == Len(s) = 23 /\ s[1] = 169 /\ s[2] = 20 /\ s[23] = 135
IsP2PK(s) == Len(s) >= 35 /\ s[1] = 65 /\ s[Len(s)] = 172
IsP2TR(s) == Len(s) = 34 /\ s[1] = 81 /\ s[2] = 32
IsP2WSH(s) == Len(s) = 34 /\ s[1] = 0 /\ s[2] = 32
IsOpReturnAnyFirstByte(s) == Len(s) >= 2
IsOpReturn(s) == Len(s) >= 2 /\ s[1] = 106

Hrp == << "b", "c" >>

\* the bodies of the branches: the address each one builds
P2PKHVersion5(s) == base58CheckEncode(<< 5 >> \o SubArray(s, 3, 23))
P2PKHAddress(s) == base58CheckEncode(<< 0 >> \o SubArray(s, 3, 23))

P2SHAddress(s) == base58CheckEncode(<< 5 >> \o SubArray(s, 2, 22))

\* dist/extract.js: RIPEMD-160 of the SHA-256 of the public key
P2PKAddress(s) ==
    LET publicKey == SubArray(s, 1, Len(s) - 1)
        publicKeyHash == sha256(publicKey)
        ripemd160Hash == ripemd160(publicKeyHash)
    IN  base58CheckEncode(<< 0 >> \o ripemd160Hash)

\* extract.ts: the first 20 bytes of the SHA-256 of the public key
P2PKAddressTs(s) ==
    LET publicKey == SubArray(s, 1, Len(s) - 1)
        publicKeyHash == SubArray(sha256(publicKey), 0, 20)
    IN  base58CheckEncode(<< 0 >> \o publicKeyHash)

WitnessData(witnessVersion, s) ==
    << witnessVersion >> \o convertBits(Nums(SubArray(s, 2, 34)), 8, 5, TRUE).words

P2TRAddress(s) == bech32mEncode(Hrp, WitnessData(1, s))

P2WSHAddress(s) == bech32Encode(Hrp, WitnessData(0, s))

OpReturnLabel == << "O", "P", "_", "R", "E", "T", "U", "R", "N", ":", " " >>

\* `OP_RETURN: ${embeddedData.toString("hex")}`; s[2] is scriptPubKey[1]
OpReturnAddress(s) ==
    LET dataLength == s[2]
        embeddedData == SubArray(s, 2, 2 + dataLength)
    IN  OpReturnLabel \o BytesToHex(embeddedData)

\* a console line: the literal text, then the string and the address
\* written after it, where there are any
Line(text, str, value) == [text |-> text, str |-> str, value |-> value]

Returned(address, trace) ==
    [kind |-> "ok", message |-> "", address |-> address,
     log |-> << Line(trace, "", << >>) >>]

Threw(message) ==
    [kind |-> "error", message |-> message, address |-> << >>, log |-> << >>]

\* dist/extract.js; the argument is always a Buffer (Buffer.from)
decodeScriptPubKey(s) ==
    IF IsP2PKH(s) THEN Returned(P2PKHAddress(s), "Detected P2PKH format")
    ELSE IF IsP2SH(s) THEN Returned(P2SHAddress(s), "Detected P2SH format")
    ELSE IF IsP2PK(s) THEN Returned(P2PKAddress(s), "Detected P2PK format")
    ELSE IF IsP2TR(s) THEN Returned(P2TRAddress(s), "Detected P2TR format")
    ELSE IF IsP2WSH(s) THEN Returned(P2WSHAddress(s), "Detected P2WSH format")
    ELSE IF IsOpReturn(s) THEN Returned(OpReturnAddress(s), "Detected OP_RETURN format")
    ELSE Threw("Unsupported scriptPubKey format")

\* extract.ts
decodeScriptPubKeyTs(s) ==
    IF IsP2PKH(s) THEN Returned(P2PKHAddress(s), "Detected P2PKH format")
    ELSE IF IsP2SH(s) THEN Returned(P2SHAddress(s), "Detected P2SH format")
    ELSE IF IsP2PK(s) THEN Returned(P2PKAddressTs(s), "Detected P2PK format")
    ELSE IF IsP2TR(s) THEN Returned(P2TRAddress(s), "Detected P2TR format")
    ELSE Threw("Unsupported scriptPubKey format")

(***************************************************************************)
(* The scripts the programs are run on: every length around the lengths    *)
(* the branches test, the bytes the branches test at the tested places,    *)
(* and two fillings of the rest; and the two scripts of the documentation. *)
(***************************************************************************)
ScriptLengths == {0, 1, 2, 3, 6, 22, 23, 24, 25, 26, 33, 34} \cup (35..MaxScriptLen)
FirstBytes == {0, 65, 81, 106, 118, 169, 255}
SecondBytes == {0, 4, 20, 32, 169, 255}
ThirdBytes == {0, 20}
LastBytes == {0, 135, 172}
Fills == {0, 1}

MakeScript(n, b0, b1, b2, last, f) ==
    [i \in 1..n |->
        IF i = 1 THEN b0
        ELSE IF i = 2 THEN b1
        ELSE IF i = 3 THEN b2
        ELSE IF i = n THEN last
        ELSE IF f = 0 THEN 0
        ELSE ((i * 37) + 11) % 256]

\* the script extract.ts decodes
ExampleHex ==
    << "5", "1", "2", "0", "0", "f", "9", "d", "a", "b", "1", "a", "7", "2", "f", "7",
       "c", "4", "8", "d", "a", "8", "a", "1", "d", "f", "2", "f", "9", "1", "3", "b",
       "e", "f", "6", "4", "9", "b", "f", "c", "0", "d", "7", "7", "0", "7", "2", "d",
       "f", "f", "d", "1", "1", "3", "2", "9", "b", "8", "0", "4", "8", "2", "9", "3",
       "d", "7", "a", "3" >>

\* the script of the README's example
ReadmeHex ==
    << "4", "1", "0", "4", "6", "7", "8", "a", "f", "d", "b", "0", "f", "e", "5", "5",
       "4", "8", "2", "7", "1", "9", "6", "7", "f", "1", "a", "6", "7", "1", "3", "0",
       "b", "7", "1", "0", "5", "c", "d", "6", "a", "8", "2", "8", "e", "0", "3", "9",
       "0", "9", "a", "6", "7", "9", "6", "2", "e", "0", "e", "a", "1", "f", "6", "1",
       "d", "e", "b", "6", "4", "9", "f", "6", "b", "c", "3", "f", "4", "c", "e", "f",
       "3", "8", "c", "4", "f", "3", "5", "5", "0", "4", "e", "5", "1", "e", "c", "1",
       "1", "2", "d", "e", "5", "c", "3", "8", "4", "d", "f", "7", "b", "a", "0", "b",
       "8", "d", "5", "7", "8", "a", "4", "c", "7", "0", "2", "b", "6", "b", "f", "1",
       "1", "d", "5", "f", "a", "c" >>

ScriptHexes ==
    { BytesToHex(MakeScript(n, b0, b1, b2, last, f)) :
        n \in ScriptLengths, b0 \in FirstBytes, b1 \in SecondBytes,
        b2 \in ThirdBytes, last \in LastBytes, f \in Fills }
    \cup { ExampleHex, ReadmeHex, << "z", "z" >> }

IdleBits ==
    /\ bdata = << >>
    /\ fromBits = 8
    /\ toBits = 5
    /\ pad = TRUE
    /\ packed = NotRun
    /\ unpacked = NotRun
    /\ bstage = "idle"

\* the arguments extract.ts is run with (it reads none of them)
TsRunArgs == { << >>, << ExampleHex >>, << ReadmeHex >> }

NoResult == [kind |-> "none", message |-> "", address |-> << >>]

Init ==
    /\ args \in { << >> } \cup { << h >> : h \in ScriptHexes }
    /\ script = << >>
    /\ pc = "start"
    /\ result = NoResult
    /\ stdout = << >>
    /\ stderr = << >>
    /\ exitCode = 0
    /\ IdleBits

Outcome(r) == [kind |-> r.kind, message |-> r.message, address |-> r.address]

(***************************************************************************)
(* dist/extract.js run with the arguments args.                            *)
(***************************************************************************)
MainJs ==
    /\ pc = "start"
    /\ pc' = "js"
    /\ IF Len(args) = 0
       THEN /\ stderr' = << Line("Usage: decodeScriptPubKey <scriptPubKey>", "", << >>) >>
            /\ exitCode' = 1
            /\ UNCHANGED <<script, result, stdout>>
       ELSE LET scriptPubKey == BufferFromHex(args[1])
                r == decodeScriptPubKey(scriptPubKey)
            IN  /\ script' = scriptPubKey
                /\ result' = Outcome(r)
                /\ IF r.kind = "ok"
                   THEN /\ stdout' = r.log \o << Line("Derived Bitcoin Address:", "", r.address) >>
                        /\ UNCHANGED <<stderr, exitCode>>
                   ELSE /\ stdout' = r.log
                        /\ stderr' = << Line("Error decoding scriptPubKey:", r.message, << >>) >>
                        /\ exitCode' = 1
    /\ UNCHANGED args
    /\ UNCHANGED bitsVars

(***************************************************************************)
(* extract.ts run: it decodes its own example script, whatever the         *)
(* arguments, and does not set an exit code.                               *)
(***************************************************************************)
MainTs ==
    /\ pc = "start"
    /\ args \in TsRunArgs
    /\ pc' = "ts"
    /\ LET scriptPubKey == BufferFromHex(ExampleHex)
           r == decodeScriptPubKeyTs(scriptPubKey)
       IN  /\ script' = scriptPubKey
           /\ result' = Outcome(r)
           /\ IF r.kind = "ok"
              THEN /\ stdout' = r.log \o << Line("Derived Bitcoin Address:", "", r.address) >>
                   /\ UNCHANGED stderr
              ELSE /\ stdout' = r.log
                   /\ stderr' = << Line("Error decoding scriptPubKey:", r.message, << >>) >>
    /\ UNCHANGED <<args, exitCode>>
    /\ UNCHANGED bitsVars

(***************************************************************************)
(* decodeScriptPubKey of extract.ts applied to the script of the argument. *)
(***************************************************************************)
DecodeTs ==
    /\ pc = "start"
    /\ Len(args) > 0
    /\ pc' = "tsDecode"
    /\ LET scriptPubKey == BufferFromHex(args[1])
           r == decodeScriptPubKeyTs(scriptPubKey)
       IN  /\ script' = scriptPubKey
           /\ result' = Outcome(r)
           /\ stdout' = r.log
    /\ UNCHANGED <<args, stderr, exitCode>>
    /\ UNCHANGED bitsVars

Next == MainJs \/ MainTs \/ DecodeTs

Spec == Init /\ [][Next]_vars

(***************************************************************************)
(* The template table of the specification, for stating the properties:    *)
(* which templates a script matches, and the result of decoding it as one. *)
(***************************************************************************)
Templates == {"P2PKH", "P2SH", "P2PK", "P2TR", "P2WSH", "OP_RETURN"}

TableOrder == << "P2PKH", "P2SH", "P2PK", "P2TR", "P2WSH", "OP_RETURN" >>

Matches(t, s) ==
    CASE t = "P2PKH" -> IsP2PKH(s)
      [] t = "P2SH" -> IsP2SH(s)
      [] t = "P2PK" -> IsP2PK(s)
      [] t = "P2TR" -> IsP2TR(s)
      [] t = "P2WSH" -> IsP2WSH(s)
      [] t = "OP_RETURN" -> IsOpReturn(s)

Matching(s) == { t \in Templates : Matches(t, s) }

\* the first template of the order o that is among the templates m
FirstIn(o, m) ==
    IF m = {} THEN "UNSUPPORTED"
    ELSE o[CHOOSE i \in 1..Len(o) : o[i] \in m /\ \A j \in 1..(i - 1) : o[j] \notin m]

\* the outcome of decoding s as template t
DecodeAs(t, s) ==
    CASE t = "P2PKH" -> [kind |-> "ok", message |-> "", address |-> P2PKHAddress(s)]
      [] t = "P2SH" -> [kind |-> "ok", message |-> "", address |-> P2SHAddress(s)]
      [] t = "P2PK" -> [kind |-> "ok", message |-> "", address |-> P2PKAddress(s)]
      [] t = "P2TR" -> [kind |-> "ok", message |-> "", address |-> P2TRAddress(s)]
      [] t = "P2WSH" -> [kind |-> "ok", message |-> "", address |-> P2WSHAddress(s)]
      [] t = "OP_RETURN" -> [kind |-> "ok", message |-> "", address |-> OpReturnAddress(s)]
      [] OTHER -> [kind |-> "error", message |-> "Unsupported scriptPubKey format",
                   address |-> << >>]

\* every order of the six templates
Orders == { [i \in 1..6 |-> f[TableOrder[i]]] : f \in Permutations(Templates) }

\* decodeScriptPubKey has been applied to script
Decoded == result.kind # "none"

StartsWith(text, prefix) ==
    Len(text) >= Len(prefix) /\ SubSeq(text, 1, Len(prefix)) = prefix

(***************************************************************************)
(* C1.  Every script has exactly one outcome: the address of the first     *)
(* template of the table whose predicate it satisfies, or the error        *)
(* "Unsupported scriptPubKey format"; and it is the error exactly when     *)
(* the script satisfies none of the six predicates.                        *)
(***************************************************************************)
C1_OneOutcomePerScript ==
    Decoded =>
        /\ result.kind \in {"ok", "error"}
        /\ (result.kind = "error") <=> (Matching(script) = {})
        /\ result.kind = "error" => result.message = "Unsupported scriptPubKey format"
        /\ result.kind = "ok" => result = DecodeAs(FirstIn(TableOrder, Matching(script)), script)

(***************************************************************************)
(* C2.  A script of at least 25 bytes that starts 76 a9 14 decodes to      *)
(* base58CheckEncode(00 || bytes 3..22), whatever follows those bytes,     *)
(* and the address starts with "1".                                        *)
(***************************************************************************)
C2_P2PKHAddress ==
    (Decoded /\ Len(script) >= 25 /\ script[1] = 118 /\ script[2] = 169 /\ script[3] = 20)
        => /\ result.kind = "ok"
           /\ result.address = base58CheckEncode(<< 0 >> \o SubSeq(script, 4, 23))
           /\ result.address[1] = "1"

\* a P2PKH script with a byte after the 25th has been decoded
C2_Witness ==
    /\ pc = "js"
    /\ Len(script) = 26
    /\ IsP2PKH(script)
    /\ script[4] # 0
    /\ result.kind = "ok"
    /\ StartsWith(result.address, << "1" >>)

(***************************************************************************)
(* C3.  For a 34-byte script whose second byte is 0x20 the first byte      *)
(* alone selects the encoding: 0x51 gives Bech32m of "bc" and              *)
(* [1] ++ repack(bytes 2..33), an address starting "bc1p"; 0x00 gives      *)
(* Bech32 of "bc" and [0] ++ repack(bytes 2..33), starting "bc1q".         *)
(***************************************************************************)
C3_WitnessVariantByFirstByte ==
    (Decoded /\ Len(script) = 34 /\ script[2] = 32) =>
        LET repacked == convertBits(Nums(SubSeq(script, 3, 34)), 8, 5, TRUE).words
        IN  /\ script[1] = 81 =>
                /\ result.kind = "ok"
                /\ result.address = BechEncode(Hrp, << 1 >> \o repacked, Bech32mConst)
                /\ StartsWith(result.address, << "b", "c", "1", "p" >>)
            /\ script[1] = 0 =>
                /\ result.kind = "ok"
                /\ result.address = BechEncode(Hrp, << 0 >> \o repacked, Bech32Const)
                /\ StartsWith(result.address, << "b", "c", "1", "q" >>)

(***************************************************************************)
(* C4.  A script of at least 35 bytes that starts 0x41 and ends 0xac       *)
(* decodes to base58CheckEncode(00 || RIPEMD160(SHA256(pubkey))), the      *)
(* public key being the bytes between the first and the last.              *)
(***************************************************************************)
C4_P2PKHash160 ==
    (Decoded /\ Len(script) >= 35 /\ script[1] = 65 /\ script[Len(script)] = 172
       /\ ~IsP2PKH(script) /\ ~IsP2SH(script))
        => /\ result.kind = "ok"
           /\ result.address =
                base58CheckEncode(<< 0 >> \o ripemd160(sha256(SubSeq(script, 2, Len(script) - 1))))

(***************************************************************************)
(* C5.  An OP_RETURN script whose declared data length exceeds the bytes   *)
(* that remain (2 + byte[1] > length) fails with TruncatedScript; no       *)
(* "OP_RETURN: <hex>" is returned with fewer than byte[1] data bytes.      *)
(***************************************************************************)
C5_TruncatedOpReturnFails ==
    (pc = "js" /\ Decoded /\ Len(script) >= 2 /\ script[1] = 106
       /\ 2 + script[2] > Len(script))
        => /\ result.kind = "error"
           /\ result.message = "TruncatedScript"

(***************************************************************************)
(* C6.  A successful decode yields the address together with the type      *)
(* label of the matched template: the returned value carries the type,     *)
(* and the success output has the line "Type: <label>".                    *)
(***************************************************************************)
C6_ResultCarriesType ==
    (pc = "js" /\ result.kind = "ok") =>
        LET label == FirstIn(TableOrder, Matching(script))
        IN  /\ "type" \in DOMAIN result
            /\ result.type = label
            /\ \E i \in 1..Len(stdout) : stdout[i].text = "Type:" /\ stdout[i].str = label

(***************************************************************************)
(* C7.  Packing bytes into 5-bit words with padding and unpacking them     *)
(* without padding raises no error and gives the bytes back.               *)
(***************************************************************************)
C7_RoundTrip ==
    (bstage # "input" /\ fromBits = 8 /\ toBits = 5 /\ pad /\ AllInRange(bdata, 8))
        => /\ packed.kind = "ok"
           /\ bstage = "unpacked" => unpacked = Ok(Values(bdata))

\* a payload of more than 32 bytes has been packed and unpacked
C7_Witness ==
    /\ bstage = "unpacked"
    /\ fromBits = 8 /\ toBits = 5 /\ pad
    /\ Len(bdata) > 32
    /\ AllInRange(bdata, 8)
    /\ unpacked.kind = "ok"

(***************************************************************************)
(* C8.  convertBits raises "Invalid value" exactly when some input value v *)
(* is outside 0 <= v < 2^fromBits, values of 2^32 and more included.       *)
(***************************************************************************)
C8_RejectsExactlyOutOfRange ==
    bstage # "input" =>
        ((packed.kind = "error" /\ packed.message = "Invalid value")
            <=> ~AllInRange(bdata, fromBits))

(***************************************************************************)
(* C9.  No script satisfies two of the six predicates, so the predicates   *)
(* evaluated in any order of the six give the classification and the       *)
(* address that dist/extract.js gives.                                     *)
(***************************************************************************)
C9_AnyOrderSameResult ==
    (pc = "js" /\ Decoded) =>
        LET m == Matching(script)
        IN  /\ Cardinality(m) <= 1
            /\ \A t \in { FirstIn(o, m) : o \in Orders } : DecodeAs(t, script) = result

\* a script that satisfies a predicate late in the table has been decoded
C9_Witness ==
    /\ pc = "js"
    /\ Matching(script) = {"P2WSH"}
    /\ result.kind = "ok"

(***************************************************************************)
(* C10.  For in-range input every word convertBits emits is in             *)
(* 0 .. 2^toBits - 1 and is the toBits-wide slice of the input bit stream  *)
(* at its position, although the accumulator wraps in 32 bits; with pad    *)
(* there are ceil(n * fromBits / toBits) words.                            *)
(***************************************************************************)
C10_WordsAreStreamSlices ==
    (bstage # "input" /\ AllInRange(bdata, fromBits)) =>
        /\ pad => /\ packed.kind = "ok"
                  /\ Len(packed.words) = CeilDiv(Len(bdata) * fromBits, toBits)
        /\ packed.kind = "ok" =>
              \A k \in 1..Len(packed.words) :
                  /\ packed.words[k] \in 0..((2^toBits) - 1)
                  /\ packed.words[k] = StreamWord(Values(bdata), fromBits, toBits, k - 1)

\* the accumulator after the whole input
FinalAcc ==
    ConvertLoop(bdata, 1, Len(bdata),
                [thrown |-> FALSE, acc |-> 0, bits |-> 0, words |-> << >>],
                fromBits, toBits).acc

\* a 32-byte payload has been packed into 52 words, the accumulator having
\* wrapped to a negative number
C10_Witness ==
    /\ bstage = "packed"
    /\ fromBits = 8 /\ toBits = 5 /\ pad
    /\ Len(bdata) = 32
    /\ AllInRange(bdata, 8)
    /\ Len(packed.words) = 52
    /\ FinalAcc < 0

=============================================================================
